---- MODULE Spec2Model ----
(***************************************************************************)
(* Model of the BikeFit analysis engine (src/src/bikefit/bikefit.py) and   *)
(* its Analysis store (src/src/bikefit/analysis.py).                       *)
(*                                                                         *)
(* Threads are the caller threads, which invoke the public methods         *)
(* start_analysis, stop_analysis, get_analysis and on_new_frame, and the   *)
(* worker threads that start_analysis spawns on _run_analysis.  Every      *)
(* method is split at the points where another thread can interleave: one  *)
(* action per read or write of a shared attribute.                         *)
(***************************************************************************)
EXTENDS Integers, Sequences, FiniteSets

\* ---------------------------------------------------------------- bounds
\* Largest number of readable frames of the video source.
MaxFrames == 2
\* Number of Thread objects start_analysis may create in one behaviour.
MaxWorkers == 2
\* Number of caller threads that use the engine concurrently.
NumCallers == 2

Workers == 1..MaxWorkers
Callers == (MaxWorkers + 1)..(MaxWorkers + NumCallers)
Threads == Workers \cup Callers
\* self._thread before the first start_analysis; also "lock not held".
None == 0
\* The callables a caller may register with on_new_frame.
Listeners == {"A", "B"}
\* The engine has no _new_frame_callback attribute until on_new_frame runs.
Unset == "unset"

VARIABLES
  is_running,    \* BikeFit._is_running
  thread,        \* BikeFit._thread: None or the last Thread object created
  lock,          \* BikeFit._lock: None or the thread that holds it
  analysis,      \* BikeFit._analysis: the one Analysis object
  callback,      \* BikeFit._new_frame_callback (Unset while the attribute is missing)
  source,        \* the cv2.VideoCapture: frames read, frames readable, released
  pose_closed,   \* whether self.pose.close() has run
  pc,            \* position of every thread in the method it executes
  frame_number,  \* _run_analysis's local frame_number, per worker
  frame,         \* the frame a worker holds: its position in the source
  frame_joints,  \* _run_analysis's local frame_joints: the joint names it holds
  frame_angles,  \* _run_analysis's local frame_angles: the angle names it holds
  listener,      \* per worker: the listener it is inside of, bound at line 207
  jt,            \* the Thread object a thread is joining in stop_analysis
  log,           \* the calls listeners have ended: <<listener, frame index, outcome,
                 \* joint names passed, angle names passed>>
  got,           \* per caller: holds the object get_analysis returned
  snap,          \* per caller: the value of that object when it was returned
  lens,          \* per caller: <<len(joints), len(angles)>> as last read
  stopped,       \* how a caller's stop_analysis last returned, "no" once a
                 \* start_analysis has set the flag again: "idle" from line 58,
                 \* "joined" from line 62
  missed,        \* some frame read so far yielded no landmarks
  late,          \* per worker: the store writes it began since the flag went
                 \* from True to False, 0 while the flag is True
  early,         \* the listener now registered was registered before any start
  points,        \* the three [x, y] landmarks given to _calculate_angle
  angle,         \* what _calculate_angle returned for them (NoAngle before)
  halted         \* a caller's stop_analysis that found the flag true has returned

vars == <<is_running, thread, lock, analysis, callback, source, pose_closed, pc,
          frame_number, frame, frame_joints, frame_angles, listener, jt, log, got, snap,
          lens, stopped, missed, late, early, points, angle, halted>>

engine == <<is_running, thread, callback, early>>
resources == <<source, pose_closed>>
wlocals == <<frame_number, frame, frame_joints, frame_angles, listener>>
consumer == <<got, snap, lens>>
calc == <<points, angle>>

\* ---------------------------------------------------------------- store
\* Analysis(): frame_count = 0 and two empty dicts.
EmptyAnalysis == [frame_count |-> 0, joints |-> <<>>, angles |-> <<>>]

\* d[k] = v on a dict: adds the key or overwrites its value.
DictSet(d, k, v) == [x \in (DOMAIN d) \cup {k} |-> IF x = k THEN v ELSE d[x]]

\* len(d) of a dict.
Len_(d) == Cardinality(DOMAIN d)

Alive(t) == pc[t] \notin {"none", "created", "done", "dead"}
Terminated(t) == pc[t] \in {"done", "dead"}

\* ---------------------------------------------------------------- _calculate_angle
\* Landmark coordinates are drawn from the grid -MaxCoord..MaxCoord, and
\* angles are whole degrees.
MaxCoord == 1
Coord == (0 - MaxCoord)..MaxCoord
Point == Coord \X Coord
NoAngle == -1

\* tan((k - 1/2) degrees) * Scale for k = 1..45: the slopes at which the
\* arc tangent, rounded to whole degrees, steps from k - 1 to k.
Scale == 100000
HalfTan == <<873, 2619, 4366, 6116, 7870, 9629, 11394, 13165, 14945,
             16734, 18534, 20345, 22169, 24008, 25862, 27732, 29621, 31530,
             33460, 35412, 37388, 39391, 41421, 43481, 45573, 47698, 49858,
             52057, 54296, 56577, 58905, 61280, 63707, 66189, 68728, 71329,
             73996, 76733, 79544, 82434, 85408, 88473, 91633, 94896, 98270>>

\* arctan(n / d) in degrees for 0 <= n <= d, 0 < d: 0..45.
Octant(n, d) == Cardinality({k \in 1..45 : HalfTan[k] * d <= Scale * n})
\* arctan(n / d) in degrees for 0 <= n and 0 < d: 0..90.
Quadrant(n, d) == IF n <= d THEN Octant(n, d) ELSE 90 - Octant(d, n)

\* np.arctan2(y, x) * 180.0 / np.pi: the direction of the ray (x, y) in
\* degrees, 0 for the null ray.
Arctan2(y, x) ==
  CASE x > 0 /\ y >= 0 -> Quadrant(y, x)
    [] x > 0 /\ y < 0  -> 0 - Quadrant(0 - y, x)
    [] x < 0 /\ y >= 0 -> 180 - Quadrant(y, 0 - x)
    [] x < 0 /\ y < 0  -> Quadrant(0 - y, 0 - x) - 180
    [] x = 0 /\ y > 0  -> 90
    [] x = 0 /\ y < 0  -> 0 - 90
    [] x = 0 /\ y = 0  -> 0

\* np.abs
Abs(x) == IF x < 0 THEN 0 - x ELSE x

\* line 89: the two ray directions from b, and their difference, in degrees
\* (the factor 180.0 / np.pi of line 90 applied to each arc tangent).
Direction(p, b) == Arctan2(p[2] - b[2], p[1] - b[1])
Radians(a, b, c) == Direction(c, b) - Direction(a, b)

\* The function without line 92-93.
_calculate_angle_unfolded(a, b, c) == Abs(Radians(a, b, c))

\* line 83-95
_calculate_angle(a, b, c) ==
  LET folded == Abs(Radians(a, b, c))
  IN  IF folded > 180 THEN 360 - folded ELSE folded

\* line 124-171: one of the three landmarks of a joint is read from the
\* pose model's result as [x, y].
Get_coordinates ==
  /\ \E i \in 1..3 : \E p \in Point : points' = [points EXCEPT ![i] = p]
  /\ angle' = NoAngle
  /\ UNCHANGED <<engine, lock, analysis, resources, pc, wlocals, jt, log, consumer,
                 stopped, missed, late, halted>>

\* line 190-198: the angle at the middle landmark, as it is put into
\* frame_angles.
Calculate ==
  /\ angle = NoAngle
  /\ angle' = _calculate_angle(points[1], points[2], points[3])
  /\ UNCHANGED <<engine, lock, analysis, resources, pc, wlocals, jt, log, consumer,
                 stopped, missed, late, points, halted>>

\* ---------------------------------------------------------------- Init
Init ==
  /\ is_running = FALSE
  /\ thread = None
  /\ lock = None
  /\ analysis = EmptyAnalysis
  /\ callback = Unset
  /\ \E n \in 0..MaxFrames : source = [pos |-> 0, N |-> n, released |-> FALSE]
  /\ pose_closed = FALSE
  /\ pc = [t \in Threads |-> IF t \in Workers THEN "none" ELSE "idle"]
  /\ frame_number = [w \in Workers |-> 0]
  /\ frame = [w \in Workers |-> -1]
  /\ frame_joints = [w \in Workers |-> {}]
  /\ frame_angles = [w \in Workers |-> {}]
  /\ listener = [w \in Workers |-> Unset]
  /\ jt = [t \in Threads |-> None]
  /\ log = <<>>
  /\ got = [c \in Callers |-> "nothing"]
  /\ snap = [c \in Callers |-> EmptyAnalysis]
  /\ lens = [c \in Callers |-> <<-1, -1>>]
  /\ stopped = "no"
  /\ missed = FALSE
  /\ late = [w \in Workers |-> 0]
  /\ early = FALSE
  /\ points = <<<<0, 0>>, <<0, 0>>, <<0, 0>>>>
  /\ angle = NoAngle
  /\ halted = FALSE

\* Where a thread continues when the method it called returns normally: a
\* caller is back in its own code, the worker is at the break of line 105.
Return(t) == IF t \in Callers THEN "idle" ELSE "release"
\* Where a thread continues when the method it called raises: the caller sees
\* the exception; in the worker it escapes _run_analysis and ends the thread.
Raise(t) == IF t \in Callers THEN "idle" ELSE "dead"

\* ---------------------------------------------------------------- start_analysis
\* Thread objects not yet created, and callers about to create one.
Unused == {w \in Workers : pc[w] = "none"}
Creating == {c \in Callers : pc[c] \in {"start_set", "start_new"}}

\* line 46-48: if self._is_running: print; return
Start_check(t) ==
  /\ t \in Callers /\ pc[t] = "idle"
  /\ Cardinality(Unused) > Cardinality(Creating)
  /\ pc' = [pc EXCEPT ![t] = IF is_running THEN "idle" ELSE "start_set"]
  /\ UNCHANGED <<engine, lock, analysis, resources, wlocals, jt, log, consumer,
                 stopped, missed, late, calc, halted>>

\* line 50: self._is_running = True
Start_set(t) ==
  /\ pc[t] = "start_set"
  /\ is_running' = TRUE
  /\ stopped' = "no"
  /\ late' = [w \in Workers |-> 0]
  /\ pc' = [pc EXCEPT ![t] = "start_new"]
  /\ UNCHANGED <<thread, callback, early, lock, analysis, resources, wlocals, jt, log,
                 consumer, missed, calc, halted>>

\* line 51: self._thread = threading.Thread(target=self._run_analysis)
Start_new(t) ==
  /\ pc[t] = "start_new"
  /\ \E w \in Unused :
       /\ w = CHOOSE x \in Unused : \A y \in Unused : x <= y
       /\ thread' = w
       /\ pc' = [pc EXCEPT ![t] = "start_start", ![w] = "created"]
  /\ UNCHANGED <<is_running, callback, early, lock, analysis, resources, wlocals, jt,
                 log, consumer, stopped, missed, late, calc, halted>>

\* line 52: self._thread.start(), on whatever self._thread is by now; a
\* Thread object that was already started raises RuntimeError.
Start_start(t) ==
  /\ pc[t] = "start_start"
  /\ pc' = IF pc[thread] = "created"
             THEN [pc EXCEPT ![t] = "idle", ![thread] = "while"]
             ELSE [pc EXCEPT ![t] = Raise(t)]
  /\ UNCHANGED <<engine, lock, analysis, resources, wlocals, jt, log, consumer,
                 stopped, missed, late, calc, halted>>

start_analysis(t) ==
  \/ Start_check(t)
  \/ Start_set(t)
  \/ Start_new(t)
  \/ Start_start(t)

\* ---------------------------------------------------------------- stop_analysis
\* A stop_analysis that tidies up on its early return: it clears the handle
\* of the finished worker before line 58 returns.
Stop_check_clearing(t) ==
  /\ \/ t \in Callers /\ pc[t] = "idle"
     \/ t \in Workers /\ pc[t] = "eof"
  /\ pc' = [pc EXCEPT ![t] = IF is_running THEN "stop_set" ELSE Return(t)]
  /\ thread' = IF is_running THEN thread ELSE None
  /\ stopped' = IF t \in Callers /\ ~is_running THEN "idle" ELSE stopped
  /\ UNCHANGED <<is_running, callback, early, lock, analysis, resources, wlocals,
                 jt, log, consumer, missed, late, calc, halted>>

\* Executed by a caller, and by the worker itself at line 104.
\* line 56-58: if not self._is_running: print; return
Stop_check(t) ==
  /\ \/ t \in Callers /\ pc[t] = "idle"
     \/ t \in Workers /\ pc[t] = "eof"
  /\ pc' = [pc EXCEPT ![t] = IF is_running THEN "stop_set" ELSE Return(t)]
  /\ stopped' = IF t \in Callers /\ ~is_running THEN "idle" ELSE stopped
  /\ UNCHANGED <<engine, lock, analysis, resources, wlocals, jt, log, consumer,
                 missed, late, calc, halted>>

\* line 60: self._is_running = False
Stop_set(t) ==
  /\ pc[t] = "stop_set"
  /\ is_running' = FALSE
  /\ late' = IF is_running THEN [w \in Workers |-> 0] ELSE late
  /\ pc' = [pc EXCEPT ![t] = "stop_join"]
  /\ UNCHANGED <<thread, callback, early, lock, analysis, resources, wlocals, jt, log,
                 consumer, stopped, missed, calc, halted>>

\* line 61-62: if self._thread: self._thread.join().  Thread.join raises
\* RuntimeError on the current thread and on a thread not yet started;
\* otherwise it blocks until that thread has ended.
Stop_join(t) ==
  /\ pc[t] = "stop_join"
  /\ IF thread = None
       THEN /\ pc' = [pc EXCEPT ![t] = Return(t)]
            /\ stopped' = IF t \in Callers THEN "joined" ELSE stopped
            /\ halted' = (halted \/ t \in Callers)
            /\ UNCHANGED jt
       ELSE IF thread = t \/ pc[thread] = "created"
         THEN /\ pc' = [pc EXCEPT ![t] = Raise(t)]
              /\ UNCHANGED <<jt, stopped, halted>>
         ELSE /\ pc' = [pc EXCEPT ![t] = "joining"]
              /\ jt' = [jt EXCEPT ![t] = thread]
              /\ UNCHANGED <<stopped, halted>>
  /\ UNCHANGED <<engine, lock, analysis, resources, wlocals, log, consumer, missed, late,
                 calc>>

\* line 62: join() returns once the joined thread has ended.
Stop_joined(t) ==
  /\ pc[t] = "joining"
  /\ Terminated(jt[t])
  /\ pc' = [pc EXCEPT ![t] = Return(t)]
  /\ jt' = [jt EXCEPT ![t] = None]
  /\ stopped' = IF t \in Callers THEN "joined" ELSE stopped
  /\ halted' = (halted \/ t \in Callers)
  /\ UNCHANGED <<engine, lock, analysis, resources, wlocals, log, consumer, missed, late,
                 calc>>

stop_analysis(t) ==
  \/ Stop_check(t)
  \/ Stop_set(t)
  \/ Stop_join(t)
  \/ Stop_joined(t)

\* ---------------------------------------------------------------- get_analysis
\* line 71: with self._lock (blocks while another thread holds the lock)
Get_acquire(t) ==
  /\ t \in Callers /\ pc[t] = "idle"
  /\ lock = None
  /\ lock' = t
  /\ pc' = [pc EXCEPT ![t] = "get_locked"]
  /\ UNCHANGED <<engine, analysis, resources, wlocals, jt, log, consumer, stopped,
                 missed, late, calc, halted>>

\* The object a get_analysis call hands out: self._analysis itself.
Returned == "self._analysis"

\* line 72: return self._analysis, leaving the with block
Get_return(t) ==
  /\ pc[t] = "get_locked"
  /\ lock' = None
  /\ got' = [got EXCEPT ![t] = Returned]
  /\ snap' = [snap EXCEPT ![t] = analysis]
  /\ lens' = [lens EXCEPT ![t] = <<-1, -1>>]
  /\ pc' = [pc EXCEPT ![t] = "idle"]
  /\ UNCHANGED <<engine, analysis, resources, wlocals, jt, log, stopped, missed, late, calc, halted>>

get_analysis(t) ==
  \/ Get_acquire(t)
  \/ Get_return(t)

\* What the holder of a returned object sees in it now: the store itself for
\* a reference to self._analysis, the value at return time for a copy.
View(t) == IF got[t] = "self._analysis" THEN analysis ELSE snap[t]

\* The consumer of the result reads len(analysis.joints) and then
\* len(analysis.angles) from the object it was given, as the test does.
Read_joints(t) ==
  /\ t \in Callers /\ pc[t] = "idle"
  /\ got[t] # "nothing"
  /\ lens' = [lens EXCEPT ![t] = <<Len_(View(t).joints), -1>>]
  /\ pc' = [pc EXCEPT ![t] = "read_angles"]
  /\ UNCHANGED <<engine, lock, analysis, resources, wlocals, jt, log, got, snap,
                 stopped, missed, late, calc, halted>>

Read_angles(t) ==
  /\ pc[t] = "read_angles"
  /\ lens' = [lens EXCEPT ![t] = <<lens[t][1], Len_(View(t).angles)>>]
  /\ pc' = [pc EXCEPT ![t] = "idle"]
  /\ UNCHANGED <<engine, lock, analysis, resources, wlocals, jt, log, got, snap,
                 stopped, missed, late, calc, halted>>

read_lengths(t) ==
  \/ Read_joints(t)
  \/ Read_angles(t)

\* ---------------------------------------------------------------- on_new_frame
\* No start_analysis call has got past its check yet.
NotStarted ==
  /\ ~is_running
  /\ thread = None
  /\ \A c \in Callers : pc[c] \notin {"start_set", "start_new"}

\* A registration that keeps the listener already there: the slot is
\* filled once.
on_new_frame_keeping(t, cb) ==
  /\ t \in Callers /\ pc[t] = "idle"
  /\ callback' = IF callback = Unset THEN cb ELSE callback
  /\ early' = NotStarted
  /\ UNCHANGED <<is_running, thread, lock, analysis, resources, pc, wlocals, jt,
                 log, consumer, stopped, missed, late, calc, halted>>

\* line 81: self._new_frame_callback = new_frame_callback
on_new_frame(t, cb) ==
  /\ t \in Callers /\ pc[t] = "idle"
  /\ callback' = cb
  /\ early' = NotStarted
  /\ UNCHANGED <<is_running, thread, lock, analysis, resources, pc, wlocals, jt,
                 log, consumer, stopped, missed, late, calc, halted>>

\* A loop that does not test the flag: while True, left only at the end of
\* the source.
Run_while_ignoring(w) ==
  /\ w \in Workers /\ pc[w] = "while"
  /\ pc' = [pc EXCEPT ![w] = "read"]
  /\ UNCHANGED <<engine, lock, analysis, resources, wlocals, jt, log, consumer,
                 stopped, missed, late, calc, halted>>

\* ---------------------------------------------------------------- _run_analysis
\* line 100: while self._is_running; when false, on to the release at line 219
Run_while(w) ==
  /\ w \in Workers /\ pc[w] = "while"
  /\ pc' = [pc EXCEPT ![w] = IF is_running THEN "read" ELSE "release"]
  /\ UNCHANGED <<engine, lock, analysis, resources, wlocals, jt, log, consumer,
                 stopped, missed, late, calc, halted>>

\* line 101-102: ret, frame = self.video_source.read(); ret is False at the
\* end of the source and on a released capture.
Run_read(w) ==
  /\ pc[w] = "read"
  /\ IF source.released \/ source.pos = source.N
       THEN /\ pc' = [pc EXCEPT ![w] = "eof"]
            /\ UNCHANGED <<source, frame>>
       ELSE /\ frame' = [frame EXCEPT ![w] = source.pos]
            /\ source' = [source EXCEPT !.pos = @ + 1]
            /\ pc' = [pc EXCEPT ![w] = "process"]
  /\ UNCHANGED <<engine, lock, analysis, pose_closed, frame_number, frame_joints,
                 frame_angles, listener, jt, log, consumer, stopped, missed, late, calc, halted>>

\* What one frame's processing can come to: landmarks found and all twelve
\* joints and four angles computed (line 119-198); no landmarks, which raises
\* inside the try block and is swallowed at line 211-213; an exception of
\* cvtColor or pose.process at line 108-115, outside the try block.
Outcomes == {"detected", "miss", "fault"}

\* The keys of frame_joints in the order line 175-187 sets them, and those
\* of frame_angles in the order of line 195-198.
JointNames == <<"left_shoulder", "left_elbow", "left_wrist", "left_hip",
                "left_knee", "left_ankle", "right_shoulder", "right_elbow",
                "right_wrist", "right_hip", "right_knee", "right_ankle">>
AngleNames == <<"left_elbow", "left_knee", "right_elbow", "right_knee">>
Keys(names, n) == {names[i] : i \in 1..n}
\* The assignments of line 175-198; the store write follows the last one.
Assignments == Len(JointNames) + Len(AngleNames)
\* The two dicts after n of these assignments: line 120-121 create them
\* empty, an exception at any later line leaves them as they are.
JointsAfter(n) ==
  Keys(JointNames, IF n < Len(JointNames) THEN n ELSE Len(JointNames))
AnglesAfter(n) ==
  Keys(AngleNames, IF n < Len(JointNames) THEN 0 ELSE n - Len(JointNames))

\* A loop that publishes in a finally clause: when the extraction raises
\* after line 120-121 created the dicts, what was filled in so far is
\* written and announced all the same.
Run_process_partial(w) ==
  /\ pc[w] = "process"
  /\ \E o \in Outcomes : \E n \in 0..Assignments :
       /\ (o = "detected") => (n = Assignments)
       /\ (o = "miss") => (n < Assignments)
       /\ (o = "fault") => (n = 0)
       /\ pc' = [pc EXCEPT ![w] = CASE o = "detected" -> "acquire"
                                    [] o = "miss" -> "acquire"
                                    [] o = "fault" -> "dead"]
       /\ missed' = (missed \/ o # "detected")
       /\ frame' = [frame EXCEPT ![w] = IF o = "fault" THEN -1 ELSE @]
       /\ frame_joints' = [frame_joints EXCEPT
                             ![w] = IF o = "fault" THEN {} ELSE JointsAfter(n)]
       /\ frame_angles' = [frame_angles EXCEPT
                             ![w] = IF o = "fault" THEN {} ELSE AnglesAfter(n)]
  /\ UNCHANGED <<engine, lock, analysis, resources, frame_number, listener, jt, log,
                 consumer, stopped, late, calc, halted>>

\* A loop that counts every frame read: frame_number += 1 sits after the
\* except block, so that a miss consumes its frame number too.
Run_process_consuming(w) ==
  /\ pc[w] = "process"
  /\ \E o \in Outcomes : \E n \in 0..Assignments :
       /\ (o = "detected") => (n = Assignments)
       /\ (o = "miss") => (n < Assignments)
       /\ (o = "fault") => (n = 0)
       /\ pc' = [pc EXCEPT ![w] = CASE o = "detected" -> "acquire"
                                    [] o = "miss" -> "while"
                                    [] o = "fault" -> "dead"]
       /\ missed' = (missed \/ o # "detected")
       /\ frame' = [frame EXCEPT ![w] = IF o = "detected" THEN @ ELSE -1]
       /\ frame_joints' = [frame_joints EXCEPT
                             ![w] = IF o = "detected" THEN JointsAfter(n) ELSE {}]
       /\ frame_angles' = [frame_angles EXCEPT
                             ![w] = IF o = "detected" THEN AnglesAfter(n) ELSE {}]
       /\ frame_number' = [frame_number EXCEPT
                             ![w] = IF o = "miss" THEN @ + 1 ELSE @]
  /\ UNCHANGED <<engine, lock, analysis, resources, listener, jt, log, consumer,
                 stopped, late, calc, halted>>

\* line 107-198, then line 216 for a miss.  A miss is an exception inside the
\* try block after n assignments, swallowed at line 211-213.  The locals
\* frame, frame_joints and frame_angles are not read again before they are
\* assigned again, so they are cleared where the iteration ends.
Run_process(w) ==
  /\ pc[w] = "process"
  /\ \E o \in Outcomes : \E n \in 0..Assignments :
       /\ (o = "detected") => (n = Assignments)
       /\ (o = "miss") => (n < Assignments)
       /\ (o = "fault") => (n = 0)
       /\ pc' = [pc EXCEPT ![w] = CASE o = "detected" -> "acquire"
                                    [] o = "miss" -> "while"
                                    [] o = "fault" -> "dead"]
       /\ missed' = (missed \/ o # "detected")
       /\ frame' = [frame EXCEPT ![w] = IF o = "detected" THEN @ ELSE -1]
       /\ frame_joints' = [frame_joints EXCEPT
                             ![w] = IF o = "detected" THEN JointsAfter(n) ELSE {}]
       /\ frame_angles' = [frame_angles EXCEPT
                             ![w] = IF o = "detected" THEN AnglesAfter(n) ELSE {}]
  /\ UNCHANGED <<engine, lock, analysis, resources, frame_number, listener, jt, log,
                 consumer, stopped, late, calc, halted>>

\* One frame's entry in joints or angles: the dict built for the frame, here
\* the frame it was computed from and the names it has values for.
Entry(f, names) == [frame |-> f, names |-> names]

\* line 201: with self._lock
Run_acquire(w) ==
  /\ pc[w] = "acquire"
  /\ lock = None
  /\ lock' = w
  /\ pc' = [pc EXCEPT ![w] = "write_count"]
  /\ UNCHANGED <<engine, analysis, resources, wlocals, jt, log, consumer, stopped,
                 missed, late, calc, halted>>

\* line 202: self._analysis.frame_count += 1
Run_write_count(w) ==
  /\ pc[w] = "write_count"
  /\ analysis' = [analysis EXCEPT !.frame_count = @ + 1]
  /\ late' = [late EXCEPT ![w] = IF is_running THEN @ ELSE @ + 1]
  /\ pc' = [pc EXCEPT ![w] = "write_joints"]
  /\ UNCHANGED <<engine, lock, resources, wlocals, jt, log, consumer, stopped,
                 missed, calc, halted>>

\* line 203: self._analysis.joints[frame_number] = frame_joints
Run_write_joints(w) ==
  /\ pc[w] = "write_joints"
  /\ analysis' = [analysis EXCEPT !.joints = DictSet(@, frame_number[w], Entry(frame[w], frame_joints[w]))]
  /\ pc' = [pc EXCEPT ![w] = "write_angles"]
  /\ UNCHANGED <<engine, lock, resources, wlocals, jt, log, consumer, stopped,
                 missed, late, calc, halted>>

\* A loop whose with block goes on past line 204: the lock is still held
\* when the listener is called.
Run_write_angles_holding(w) ==
  /\ pc[w] = "write_angles"
  /\ analysis' = [analysis EXCEPT !.angles = DictSet(@, frame_number[w], Entry(frame[w], frame_angles[w]))]
  /\ pc' = [pc EXCEPT ![w] = "notify"]
  /\ UNCHANGED <<engine, lock, resources, wlocals, jt, log, consumer, stopped, missed,
                 late, calc, halted>>

\* line 204: self._analysis.angles[frame_number] = frame_angles, and the end
\* of the with block
Run_write_angles(w) ==
  /\ pc[w] = "write_angles"
  /\ analysis' = [analysis EXCEPT !.angles = DictSet(@, frame_number[w], Entry(frame[w], frame_angles[w]))]
  /\ lock' = None
  /\ pc' = [pc EXCEPT ![w] = "notify"]
  /\ UNCHANGED <<engine, resources, wlocals, jt, log, consumer, stopped, missed, late, calc, halted>>

\* How a call of the listener can end: it returns, or it raises an Exception.
Endings == {"returns", "raises"}

\* A loop with frame_number += 1 after the except block: the index moves on
\* however the listener call ended.
Advance_always(n, ending) == n + 1

\* The value of frame_number after line 205-213: line 209 is reached unless
\* the listener raised, in which case line 211-213 swallows the exception.
Advance(n, ending) == IF ending = "raises" THEN n ELSE n + 1

\* line 206-207: with no listener registered line 209 and 216 follow at
\* once; otherwise the attribute is read and the call begins.
Run_notify(w) ==
  /\ pc[w] = "notify"
  /\ IF callback = Unset
       THEN /\ frame_number' = [frame_number EXCEPT ![w] = Advance(@, "no call")]
            /\ pc' = [pc EXCEPT ![w] = "while"]
            /\ frame' = [frame EXCEPT ![w] = -1]
            /\ frame_joints' = [frame_joints EXCEPT ![w] = {}]
            /\ frame_angles' = [frame_angles EXCEPT ![w] = {}]
            /\ UNCHANGED listener
       ELSE /\ listener' = [listener EXCEPT ![w] = callback]
            /\ pc' = [pc EXCEPT ![w] = "call"]
            /\ UNCHANGED <<frame_number, frame, frame_joints, frame_angles>>
  /\ UNCHANGED <<engine, lock, analysis, resources, jt, log, consumer, stopped,
                 missed, late, calc, halted>>

\* line 207 ends: the listener returns or raises; then line 209 or line
\* 211-213, and line 216.
Run_return(w) ==
  /\ pc[w] = "call"
  /\ \E e \in Endings :
       /\ log' = Append(log, <<listener[w], frame_number[w], e,
                                frame_joints[w], frame_angles[w]>>)
       /\ frame_number' = [frame_number EXCEPT ![w] = Advance(@, e)]
  /\ pc' = [pc EXCEPT ![w] = "while"]
  /\ frame' = [frame EXCEPT ![w] = -1]
  /\ frame_joints' = [frame_joints EXCEPT ![w] = {}]
  /\ frame_angles' = [frame_angles EXCEPT ![w] = {}]
  /\ listener' = [listener EXCEPT ![w] = Unset]
  /\ UNCHANGED <<engine, lock, analysis, resources, jt, consumer, stopped,
                 missed, late, calc, halted>>

\* line 219: self.video_source.release()
Run_release(w) ==
  /\ w \in Workers /\ pc[w] = "release"
  /\ source' = [source EXCEPT !.released = TRUE]
  /\ pc' = [pc EXCEPT ![w] = "close"]
  /\ UNCHANGED <<engine, lock, analysis, pose_closed, wlocals, jt, log, consumer,
                 stopped, missed, late, calc, halted>>

\* line 220: self.pose.close(), and the thread ends
Run_close(w) ==
  /\ pc[w] = "close"
  /\ pose_closed' = TRUE
  /\ pc' = [pc EXCEPT ![w] = "done"]
  /\ UNCHANGED <<engine, lock, analysis, source, wlocals, jt, log, consumer,
                 stopped, missed, late, calc, halted>>

\* The steps of _run_analysis; the self.stop_analysis() of line 104 is
\* stop_analysis(w).
_run_analysis(w) ==
  \/ Run_while(w)
  \/ Run_read(w)
  \/ Run_process(w)
  \/ Run_acquire(w)
  \/ Run_write_count(w)
  \/ Run_write_joints(w)
  \/ Run_write_angles(w)
  \/ Run_notify(w)
  \/ Run_return(w)
  \/ Run_release(w)
  \/ Run_close(w)

\* ---------------------------------------------------------------- specification
WorkerStep(w) == _run_analysis(w) \/ stop_analysis(w)

\* The engine under its lifecycle callers: any caller starts, stops and
\* registers listeners at any time while the workers run.
Next ==
  \/ \E c \in Callers : start_analysis(c)
  \/ \E t \in Threads : stop_analysis(t)
  \/ \E c \in Callers : \E cb \in Listeners : on_new_frame(c, cb)
  \/ \E w \in Workers : _run_analysis(w)

Spec == Init /\ [][Next]_vars

\* The engine with a consumer of its results: one caller drives the
\* lifecycle, another calls get_analysis and reads what it was given.
Controller == MaxWorkers + 1
Reader == MaxWorkers + NumCallers

NextRead ==
  \/ start_analysis(Controller)
  \/ \E t \in Workers \cup {Controller} : stop_analysis(t)
  \/ \E cb \in Listeners : on_new_frame(Controller, cb)
  \/ get_analysis(Reader)
  \/ read_lengths(Reader)
  \/ \E w \in Workers : _run_analysis(w)

ReadSpec == Init /\ [][NextRead]_vars

\* The engine under one caller thread, which starts it, stops it and
\* registers listeners in any order while the workers run.
NextCtl ==
  \/ start_analysis(Controller)
  \/ \E t \in Workers \cup {Controller} : stop_analysis(t)
  \/ \E cb \in Listeners : on_new_frame(Controller, cb)
  \/ \E w \in Workers : _run_analysis(w)

CtlSpec == Init /\ [][NextCtl]_vars

\* The engine left to itself: callers start it and register listeners, and
\* nobody calls stop_analysis but the worker at the end of the source.  A
\* thread that can take a step takes one: every worker is a running system
\* thread, and a caller inside start_analysis goes on to the end of it.
NextLeft ==
  \/ start_analysis(Controller)
  \/ \E w \in Workers : stop_analysis(w)
  \/ \E cb \in Listeners : on_new_frame(Controller, cb)
  \/ \E w \in Workers : _run_analysis(w)

LiveSpec ==
  /\ Init
  /\ [][NextLeft]_vars
  /\ \A w \in Workers : WF_vars(WorkerStep(w))
  /\ WF_vars(Start_set(Controller) \/ Start_new(Controller) \/ Start_start(Controller))

\* The engine under one caller thread, every thread scheduled fairly: a
\* worker that can take a step takes one (reads, inference and listener
\* calls return), and the caller goes on to the end of the start_analysis
\* or stop_analysis it is in.
StopSpec ==
  /\ Init
  /\ [][NextCtl]_vars
  /\ \A w \in Workers : WF_vars(WorkerStep(w))
  /\ WF_vars(Start_set(Controller) \/ Start_new(Controller) \/ Start_start(Controller))
  /\ WF_vars(Stop_set(Controller) \/ Stop_join(Controller) \/ Stop_joined(Controller))

\* The angle computation of one joint, for any three landmarks of the grid.
NextAngle ==
  \/ Get_coordinates
  \/ Calculate

AngleSpec == Init /\ [][NextAngle]_vars

\* ---------------------------------------------------------------- claims
InWrite == lock \in Workers
InLoop(w) == pc[w] \in {"while", "read", "process", "acquire", "write_count",
                        "write_joints", "write_angles", "notify", "call"}
\* Only the first Thread object has been created: the engine's first run.
FirstRun == \A w \in Workers : w > 1 => pc[w] = "none"
Indices == [i \in 1..Len(log) |-> log[i][2]]

\* C1: whenever no worker is inside its locked write section,
\* len(joints) == len(angles) == frame_count.
C1_StoreConsistent ==
  ~InWrite => /\ Len_(analysis.joints) = Len_(analysis.angles)
              /\ Len_(analysis.joints) = analysis.frame_count

\* C2: once a caller's stop_analysis has returned (from line 58 or from line
\* 62), the store does not change any more, as long as nobody starts again.
C2_NoWriteAfterStop == [][stopped # "no" => analysis' = analysis]_vars

\* C3: what get_analysis returned keeps the value it had when it was
\* returned, whatever the worker writes afterwards.
C3_SnapshotImmune ==
  \A c \in Callers : got[c] # "nothing" => View(c) = snap[c]

\* C4: a consumer that has read len(joints) and then len(angles) from the
\* object get_analysis gave it has read two equal numbers.
C4_LengthsAgree ==
  \A c \in Callers : (lens[c][1] # -1 /\ lens[c][2] # -1) => lens[c][1] = lens[c][2]

\* C5: a listener registered before start is called once per frame written,
\* with the indices 0, 1, 2, ... in this order, over the engine's run.
C5_NotifiedInOrder ==
  (early /\ FirstRun) =>
     /\ \A i \in 1..Len(log) : Indices[i] = i - 1
     /\ (\A w \in Workers : pc[w] \notin {"write_joints", "write_angles", "notify", "call"})
          => Len(log) = analysis.frame_count

\* C6: when the first run has read all N frames without a miss and its
\* worker has ended, frame_count = N and both dicts have the keys 0..N-1.
C6_FullRun ==
  (FirstRun /\ Terminated(1) /\ source.pos = source.N /\ ~missed) =>
     /\ analysis.frame_count = source.N
     /\ DOMAIN analysis.joints = 0..(source.N - 1)
     /\ DOMAIN analysis.angles = 0..(source.N - 1)

\* C7: at most one worker is inside the loop of _run_analysis.
C7_OneWorker == Cardinality({w \in Workers : InLoop(w)}) <= 1

\* C8: a stop_analysis that finds the flag false returns at once, without
\* raising, and leaves the flag, the worker handle, the listener and the
\* store as they were.
C8_StopIdleNoop ==
  [][\A c \in Callers :
       (pc[c] = "idle" /\ ~is_running /\ stop_analysis(c)) =>
          /\ pc'[c] = "idle"
          /\ UNCHANGED <<is_running, thread, callback, analysis>>]_vars

\* A stop_analysis found the engine idle after a run that stored a frame
\* and notified a listener.
C8_Witness ==
  /\ stopped = "idle"
  /\ thread # None /\ Terminated(thread)
  /\ analysis.frame_count > 0
  /\ callback # Unset

\* C9: with nobody calling stop_analysis, every live worker comes to its end
\* with the running flag false.
C9_SelfStop ==
  \A w \in Workers : Alive(w) ~> (Terminated(w) /\ ~is_running)

\* C10: when the flag is false and a worker thread has ended, the video
\* source is released and the pose model closed.
C10_Released ==
  \A w \in Workers :
    (Terminated(w) /\ ~is_running) => (source.released /\ pose_closed)

\* C11: processing a frame never ends the worker thread: whatever cvtColor
\* or pose.process does with the frame, the worker is alive afterwards.
C11_FaultAbsorbed ==
  [][\A w \in Workers : pc[w] = "process" => Alive(w)']_vars

\* C12: a frame without landmarks leaves the store and the listener alone
\* and takes the worker back to the loop test; and a worker leaves its loop
\* only on a failed read or on finding the running flag false.
C12_MissContinues ==
  [][\A w \in Workers :
       /\ (pc[w] = "process" /\ pc'[w] = "while") => UNCHANGED <<analysis, log>>
       /\ (InLoop(w) /\ ~InLoop(w)') =>
             \/ pc[w] = "read" /\ pc'[w] = "eof"
             \/ pc[w] = "while" /\ ~is_running]_vars

\* The part of C12 about the miss itself: the store, the listener's calls
\* and the frame index are as before, and the worker is at the loop test.
C12_MissOnly ==
  [][\A w \in Workers :
       (pc[w] = "process" /\ pc'[w] \notin {"process", "acquire", "dead"}) =>
          /\ pc'[w] = "while"
          /\ UNCHANGED <<analysis, log, frame_number, is_running>>]_vars

\* The worker holds a detected frame: between line 198 and line 209.
Holding(w) == pc[w] \in {"acquire", "write_count", "write_joints",
                         "write_angles", "notify", "call"}

C14_AllOrNothing ==
  /\ \A k \in DOMAIN analysis.joints :
       /\ analysis.joints[k].names = Keys(JointNames, Len(JointNames))
       /\ Cardinality(analysis.joints[k].names) = 12
  /\ \A k \in DOMAIN analysis.angles :
       /\ analysis.angles[k].names = Keys(AngleNames, Len(AngleNames))
       /\ Cardinality(analysis.angles[k].names) = 4
  /\ \A i \in 1..Len(log) :
       /\ log[i][4] = Keys(JointNames, Len(JointNames))
       /\ log[i][5] = Keys(AngleNames, Len(AngleNames))
  /\ \A w \in Workers : pc[w] = "call" =>
       /\ frame_joints[w] = Keys(JointNames, Len(JointNames))
       /\ frame_angles[w] = Keys(AngleNames, Len(AngleNames))

\* A frame was stored and announced after another frame's extraction failed.
C14_Witness ==
  /\ missed
  /\ Len_(analysis.joints) > 0 /\ Len_(analysis.angles) > 0
  /\ Len(log) > 0

\* C15: while a listener call is running the store has the index it was
\* called with, in both dicts and written under a lock since released, and
\* no read of the source begins before the call has ended.
C15_NotifyThenRead ==
  /\ [](\A w \in Workers : pc[w] = "call" =>
           /\ frame_number[w] \in DOMAIN analysis.joints
           /\ frame_number[w] \in DOMAIN analysis.angles
           /\ lock # w)
  /\ [][\A w \in Workers : \A v \in Workers :
          (pc[w] = "call" /\ pc[v] = "read") => pc'[v] = "read"]_vars

\* The part of C15 about one worker: its listener call comes after its
\* write, and its next read after the end of that call.
C15_OwnOrder ==
  /\ [](\A w \in Workers : pc[w] = "call" =>
           /\ frame_number[w] \in DOMAIN analysis.joints
           /\ frame_number[w] \in DOMAIN analysis.angles
           /\ analysis.joints[frame_number[w]].names = frame_joints[w]
           /\ lock # w)
  /\ [][\A w \in Workers :
          /\ (pc[w] # "call" /\ pc'[w] = "call") => pc[w] = "notify"
          /\ (pc[w] # "notify" /\ pc'[w] = "notify") => pc[w] = "write_angles"
          /\ (pc[w] = "call" /\ pc'[w] # "call") => pc'[w] = "while"
          /\ (pc[w] # "read" /\ pc'[w] = "read") => pc[w] = "while"]_vars

\* C16: every write of the worker uses a key greater than every key the
\* dict it writes to already has, so that no entry is ever overwritten.
C16_KeysIncrease ==
  \A w \in Workers :
    /\ pc[w] = "write_joints" =>
         \A k \in DOMAIN analysis.joints : k < frame_number[w]
    /\ pc[w] = "write_angles" =>
         \A k \in DOMAIN analysis.angles : k < frame_number[w]

\* C17: a registration replaces the one before it; a notification that
\* starts calls the listener registered at that moment and no other, and the
\* call that ends is the call that was started; with no registration a
\* stored frame is followed by the next iteration, with the frame index
\* advanced and without a call.
C17_SingleSlot ==
  [][/\ \A c \in Callers : \A cb \in Listeners :
          on_new_frame(c, cb) => callback' = cb
     /\ \A w \in Workers :
          /\ (pc[w] = "notify" /\ pc'[w] = "call") =>
                (callback # Unset /\ listener'[w] = callback)
          /\ (pc[w] = "call" /\ pc'[w] # "call") =>
                /\ log' = Append(log, log'[Len(log')])
                /\ log'[Len(log')][1] = listener[w]
                /\ log'[Len(log')][2] = frame_number[w]
          /\ (pc[w] = "notify" /\ pc'[w] # "notify" /\ callback = Unset) =>
                /\ pc'[w] = "while"
                /\ log' = log
                /\ frame_number'[w] = frame_number[w] + 1
                /\ frame_number[w] \in DOMAIN analysis.joints
                /\ frame_number[w] \in DOMAIN analysis.angles
     /\ log' # log => \E w \in Workers : pc[w] = "call" /\ pc'[w] # "call"]_vars

\* Frame 0 went to A; B was registered while the worker was running, and
\* frame 1 went to B.
C17_Witness ==
  /\ FirstRun
  /\ Len(log) = 2
  /\ log[1][1] = "A" /\ log[2][1] = "B"
  /\ callback = "B"

\* C18: the worker consults the running flag at line 100 and nowhere else: an
\* iteration under way is not cut short by the flag, the loop is left for
\* the release of line 219 only from line 100 with the flag false, and a
\* worker begins at most one store write after the flag was cleared.
C18_Cooperative ==
  /\ [](\A w \in Workers : late[w] <= 1)
  /\ [][\A w \in Workers :
          /\ (InLoop(w) /\ pc'[w] \in {"release", "close", "done"}) =>
                (pc[w] = "while" /\ ~is_running /\ pc'[w] = "release")
          /\ (pc[w] = "while" /\ pc'[w] # "while") =>
                pc'[w] = (IF is_running THEN "read" ELSE "release")
          /\ (pc[w] = "write_count" /\ pc'[w] # "write_count") =>
                pc'[w] = "write_joints"
          /\ (pc[w] = "write_joints" /\ pc'[w] # "write_joints") =>
                pc'[w] = "write_angles"
          /\ (pc[w] = "write_angles" /\ pc'[w] # "write_angles") =>
                pc'[w] = "notify"
          /\ (pc[w] = "notify" /\ pc'[w] # "notify") =>
                pc'[w] = (IF callback = Unset THEN "while" ELSE "call")]_vars

\* A caller's stop cleared the flag while the worker had an iteration under
\* way; the worker stored and announced that frame and ended; the caller's
\* join has returned.
C18_Witness ==
  /\ stopped = "joined"
  /\ ~is_running
  /\ \E w \in Workers : late[w] = 1 /\ pc[w] = "done"
  /\ Len(log) > 0

\* A caller is inside a stop_analysis that found the flag true.
Stopping(c) == pc[c] \in {"stop_set", "stop_join", "joining"}

\* C19: a stop_analysis called while the flag is true returns, and when it
\* returns the flag is false and every worker thread has ended.
C19_StopJoins ==
  /\ \A c \in Callers : Stopping(c) ~> pc[c] = "idle"
  /\ [][\A c \in Callers :
          (Stopping(c) /\ pc'[c] = "idle") =>
             /\ pc[c] = "joining"
             /\ ~is_running'
             /\ \A w \in Workers : ~Alive(w)']_vars

\* The part of C19 about the thread joined: the stop_analysis returns, from
\* the join of line 62, with the flag false and that thread ended.
C19_JoinedEnded ==
  /\ \A c \in Callers : Stopping(c) ~> pc[c] = "idle"
  /\ [][\A c \in Callers :
          (Stopping(c) /\ pc'[c] = "idle") =>
             /\ pc[c] = "joining"
             /\ ~is_running'
             /\ Terminated(jt[c])]_vars

\* The three writes of line 202-204.
Writing(w) == pc[w] \in {"write_count", "write_joints", "write_angles"}

\* C20: a worker holds the lock exactly while it is at the three writes of
\* line 202-204, so not while it reads the source, runs inference or is
\* inside the listener; a caller holds it only inside get_analysis; and
\* whoever holds it can go on to release it without waiting for anyone.
C20_LockOnlyForWrite ==
  /\ \A w \in Workers : (lock = w) <=> Writing(w)
  /\ \A c \in Callers : (lock = c) <=> pc[c] = "get_locked"
  /\ \A w \in Workers :
       lock = w => ENABLED (Run_write_count(w) \/ Run_write_joints(w)
                              \/ Run_write_angles(w))
  /\ \A c \in Callers : lock = c => ENABLED Get_return(c)

\* A caller is inside get_analysis, holding the lock, while a worker is
\* inside the listener.
C20_Witness ==
  /\ lock = Reader /\ pc[Reader] = "get_locked"
  /\ \E w \in Workers : pc[w] = "call"

C22_FailureKeepsIndex ==
  /\ [][\A w \in Workers :
          (pc[w] = "call" /\ pc'[w] # "call" /\ log'[Len(log')][3] = "raises") =>
             /\ pc'[w] = "while"
             /\ analysis' = analysis
             /\ analysis.frame_count > 0
             /\ frame_number[w] \in DOMAIN analysis.joints
             /\ frame_number[w] \in DOMAIN analysis.angles
             /\ frame_number'[w] = frame_number[w]]_vars
  /\ [](FirstRun =>
          /\ \A i \in 1..(Len(log) - 1) :
               log[i + 1][2] = log[i][2] + (IF log[i][3] = "raises" THEN 0 ELSE 1)
          /\ (Len(log) > 0 /\ log[Len(log)][3] = "raises") =>
               frame_number[1] = log[Len(log)][2])

\* The listener raised for frame 0 under index 0, and frame 1 was then
\* written and announced under index 0 as well.
C22_Witness ==
  /\ FirstRun
  /\ Len(log) = 2
  /\ log[1][2] = 0 /\ log[1][3] = "raises"
  /\ log[2][2] = 0
  /\ analysis.frame_count = 2
  /\ analysis.joints[0].frame = 1 /\ analysis.angles[0].frame = 1

\* C23: once a caller's stop_analysis that found the flag true has returned,
\* the store does not change and no listener call ends any more, whatever
\* is started afterwards; a read of the source made from then on fails.
C23_NoRestart ==
  [][halted =>
       /\ analysis' = analysis
       /\ log' = log
       /\ \A w \in Workers :
            (pc[w] = "read" /\ pc'[w] # "read") => pc'[w] = "eof"]_vars

\* Nothing is left to process: the source is released, or it is read to
\* its end and no worker has a frame in hand.
SourceGone ==
  \/ source.released
  \/ /\ source.pos = source.N
     /\ \A w \in Workers : pc[w] # "process" /\ ~Holding(w)

\* The part of C23 that does not depend on how the stopped worker ended:
\* when nothing was left to process, what is started after the stop reads
\* nothing, stores nothing and announces nothing.
C23_SourceGone ==
  [][(halted /\ SourceGone) =>
       /\ analysis' = analysis
       /\ log' = log
       /\ SourceGone'
       /\ \A w \in Workers :
            (pc[w] = "read" /\ pc'[w] # "read") => pc'[w] = "eof"]_vars

====
